---------------------------- MODULE Spec2Model ----------------------------
(***************************************************************************)
(* A model of the JMESPath tree interpreter (src/src/interpreter.rs) and   *)
(* of the function registry of the runtime (src/jmespath/src/runtime.rs).  *)
(*                                                                         *)
(* Three specifications share the module:                                  *)
(*   Spec         TreeInterpreter::interpret applied to one AST and one    *)
(*                input value, with the Context threaded through the       *)
(*                recursion exactly as the code threads `ctx`;             *)
(*   SpecSlice    the function slice() run statement by statement, with    *)
(*                the i32 arithmetic of the loop at its real width;        *)
(*   SpecRuntime  Runtime::register_function / deregister_function /       *)
(*                get_function applied in any order.                       *)
(***************************************************************************)
EXTENDS Integers, Sequences, FiniteSets, TLC

VARIABLES
    \* ---- Spec: one call of TreeInterpreter::interpret
    root,        \* the AST handed to interpret
    input,       \* the input value
    phase,       \* "ready" before the call, "done" after it
    outcome,     \* what the call returned and the Context it left behind
    \* ---- SpecSlice: one call of slice()
    s_array,     \* the array argument
    s_start,     \* Option<i32>: <<>> is None, <<x>> is Some(x)
    s_stop,      \* Option<i32>
    s_step,      \* i32, never 0 (the caller has checked it)
    s_a,         \* the local a
    s_b,         \* the local b
    s_i,         \* the local i
    s_result,    \* the local result
    s_pc,        \* "entry", "loop", "add", "done" or "panic"
    s_fault,     \* "none", "overflow" (i += step overflowed), "index" (array[i] out of bounds)
    \* ---- SpecRuntime: the registry of a Runtime
    functions,   \* Runtime.functions: a map from names to capabilities
    prev,        \* the map just before the last call
    last,        \* the last call and what it returned
    history      \* every register/deregister call so far, oldest first

interpVars  == <<root, input, phase, outcome>>
sliceVars   == <<s_array, s_start, s_stop, s_step, s_a, s_b, s_i, s_result, s_pc, s_fault>>
runtimeVars == <<functions, prev, last, history>>
vars        == <<interpVars, sliceVars, runtimeVars>>

-----------------------------------------------------------------------------
(***************************************************************************)
(* Bounds of the model.                                                    *)
(***************************************************************************)
MaxLen  == 3      \* longest input array
MaxOps  == 4      \* longest sequence of registry mutations

(***************************************************************************)
(* i32.                                                                    *)
(***************************************************************************)
MaxI32 == 2147483647
MinI32 == (-MaxI32) - 1

\* Whether x + y leaves the i32 range (computed without leaving it).
AddOverflows(x, y) ==
    \/ y > 0 /\ x > MaxI32 - y
    \/ y < 0 /\ x < MinI32 - y

\* x + y modulo 2^32, as a release build computes `i += step`.
WrappingAdd(x, y) ==
    IF y > 0 /\ x > MaxI32 - y THEN (x - MaxI32 - 1) + (y - MaxI32 - 1)
    ELSE IF y < 0 /\ x < MinI32 - y THEN (x + MaxI32 + 1) + (y + MaxI32 + 1)
    ELSE x + y

\* Option<T> as a sequence of length 0 or 1.
None    == <<>>
Some(x) == <<x>>

-----------------------------------------------------------------------------
(***************************************************************************)
(* slice() and adjust_slice_endpoint().                                    *)
(***************************************************************************)
adjust_slice_endpoint(len, endpoint, step) ==
    IF endpoint < 0
    THEN LET e == endpoint + len
         IN IF e >= 0 THEN e
            ELSE IF step < 0 THEN -1
            ELSE 0
    ELSE IF endpoint < len THEN endpoint
    ELSE IF step < 0 THEN len - 1
    ELSE len

\* let a: i32 = match start { ... }
SliceA(len, start, step) ==
    IF start # None THEN adjust_slice_endpoint(len, start[1], step)
    ELSE IF step < 0 THEN len - 1
    ELSE 0

\* let b: i32 = match stop { ... }
SliceB(len, stop, step) ==
    IF stop # None THEN adjust_slice_endpoint(len, stop[1], step)
    ELSE IF step < 0 THEN -1
    ELSE len

\* The loop condition: i < b for a positive step, i > b for a negative one.
SliceCond(i, b, step) == IF step > 0 THEN i < b ELSE i > b

\* array[i as usize] is in bounds.
InBounds(array, i) == i >= 0 /\ i < Len(array)

\* slice() as a function of its arguments.  The loop is run to its end; a call
\* that panics (in a build with overflow checks at `i += step`, in a build
\* without them at the next `array[i as usize]`) returns no vector.
RECURSIVE SliceLoop(_, _, _, _, _)
SliceLoop(array, i, b, step, result) ==
    IF ~SliceCond(i, b, step) THEN [panic |-> FALSE, result |-> result]
    ELSE IF ~InBounds(array, i) THEN [panic |-> TRUE, result |-> result]
    ELSE IF AddOverflows(i, step) THEN [panic |-> TRUE, result |-> Append(result, array[i + 1])]
    ELSE SliceLoop(array, i + step, b, step, Append(result, array[i + 1]))

slice(array, start, stop, step) ==
    LET len == Len(array)
    IN IF len = 0 THEN [panic |-> FALSE, result |-> <<>>]
       ELSE SliceLoop(array, SliceA(len, start, step), SliceB(len, stop, step), step, <<>>)

-----------------------------------------------------------------------------
(***************************************************************************)
(* Values (Variable behind an RcVar).  A value is a record whose field t   *)
(* is its type name; an object is a function from its keys to values, an   *)
(* array a sequence of values.                                             *)
(***************************************************************************)
Null          == [t |-> "null"]
Bool(x)       == [t |-> "boolean", v |-> x]
Num(x)        == [t |-> "number", v |-> x]
Str(x)        == [t |-> "string", v |-> x]
Arr(x)        == [t |-> "array", v |-> x]
Obj(x)        == [t |-> "object", v |-> x]
ExprefVal(x)  == [t |-> "expref", v |-> x]

EmptyMap == [k \in {} |-> Null]
MapInsert(m, k, x) == [j \in (DOMAIN m) \cup {k} |-> IF j = k THEN x ELSE m[j]]
MapRemove(m, k)    == [j \in (DOMAIN m) \ {k} |-> m[j]]

-----------------------------------------------------------------------------
(***************************************************************************)
(* SpecSlice: slice() statement by statement.                              *)
(***************************************************************************)
ArrayOfLen(n) == [k \in 1..n |-> Num(k - 1)]

EndpointInts == ((-(MaxLen + 2))..(MaxLen + 2)) \cup {MinI32, MaxI32}
Endpoints    == {None} \cup {Some(x) : x \in EndpointInts}
Steps        == (((-(MaxLen + 1))..(MaxLen + 1)) \ {0})
                    \cup {MinI32, MinI32 + 1, MaxI32 - 1, MaxI32}

InitSliceIdle ==
    /\ s_array = <<>> /\ s_start = None /\ s_stop = None /\ s_step = 1
    /\ s_a = 0 /\ s_b = 0 /\ s_i = 0 /\ s_result = <<>>
    /\ s_pc = "done" /\ s_fault = "none"

InitSlice ==
    /\ s_array \in {ArrayOfLen(n) : n \in 0..MaxLen}
    /\ s_start \in Endpoints
    /\ s_stop \in Endpoints
    /\ s_step \in Steps
    /\ s_a = 0 /\ s_b = 0 /\ s_i = 0 /\ s_result = <<>>
    /\ s_pc = "entry" /\ s_fault = "none"

\* let mut result = vec![]; let len = ...; if len == 0 { return result; }
\* let a = ...; let b = ...; let mut i = a;
SliceEntry ==
    /\ s_pc = "entry"
    /\ s_result' = <<>>
    /\ IF Len(s_array) = 0
       THEN /\ s_pc' = "done"
            /\ UNCHANGED <<s_a, s_b, s_i>>
       ELSE /\ s_a' = SliceA(Len(s_array), s_start, s_step)
            /\ s_b' = SliceB(Len(s_array), s_stop, s_step)
            /\ s_i' = s_a'
            /\ s_pc' = "loop"
    /\ UNCHANGED <<s_array, s_start, s_stop, s_step, s_fault>>
    /\ UNCHANGED <<interpVars, runtimeVars>>

\* The loop condition is false: return result.
SliceExit ==
    /\ s_pc = "loop"
    /\ ~SliceCond(s_i, s_b, s_step)
    /\ s_pc' = "done"
    /\ UNCHANGED <<s_array, s_start, s_stop, s_step, s_a, s_b, s_i, s_result, s_fault>>
    /\ UNCHANGED <<interpVars, runtimeVars>>

\* result.push(array[i as usize].clone()), the index in bounds.
SlicePush ==
    /\ s_pc = "loop"
    /\ SliceCond(s_i, s_b, s_step)
    /\ InBounds(s_array, s_i)
    /\ s_result' = Append(s_result, s_array[s_i + 1])
    /\ s_pc' = "add"
    /\ UNCHANGED <<s_array, s_start, s_stop, s_step, s_a, s_b, s_i, s_fault>>
    /\ UNCHANGED <<interpVars, runtimeVars>>

\* array[i as usize] with the index out of bounds: the call panics.
SliceIndexPanic ==
    /\ s_pc = "loop"
    /\ SliceCond(s_i, s_b, s_step)
    /\ ~InBounds(s_array, s_i)
    /\ s_pc' = "panic"
    /\ s_fault' = "index"
    /\ UNCHANGED <<s_array, s_start, s_stop, s_step, s_a, s_b, s_i, s_result>>
    /\ UNCHANGED <<interpVars, runtimeVars>>

\* i += step, within i32.
SliceAdd ==
    /\ s_pc = "add"
    /\ ~AddOverflows(s_i, s_step)
    /\ s_i' = s_i + s_step
    /\ s_pc' = "loop"
    /\ UNCHANGED <<s_array, s_start, s_stop, s_step, s_a, s_b, s_result, s_fault>>
    /\ UNCHANGED <<interpVars, runtimeVars>>

\* i += step overflows, in a build that checks overflow: the call panics.
SliceAddOverflowPanic ==
    /\ s_pc = "add"
    /\ AddOverflows(s_i, s_step)
    /\ s_pc' = "panic"
    /\ s_fault' = "overflow"
    /\ UNCHANGED <<s_array, s_start, s_stop, s_step, s_a, s_b, s_i, s_result>>
    /\ UNCHANGED <<interpVars, runtimeVars>>

\* i += step overflows, in a build that does not check overflow: i wraps.
SliceAddWrap ==
    /\ s_pc = "add"
    /\ AddOverflows(s_i, s_step)
    /\ s_i' = WrappingAdd(s_i, s_step)
    /\ s_pc' = "loop"
    /\ UNCHANGED <<s_array, s_start, s_stop, s_step, s_a, s_b, s_result, s_fault>>
    /\ UNCHANGED <<interpVars, runtimeVars>>

NextSlice ==
    \/ SliceEntry
    \/ SliceExit
    \/ SlicePush
    \/ SliceIndexPanic
    \/ SliceAdd
    \/ SliceAddOverflowPanic
    \/ SliceAddWrap

-----------------------------------------------------------------------------
(***************************************************************************)
(* SpecRuntime: the registry of a Runtime.  A capability (an               *)
(* Arc<dyn Function>) is modelled by its identity.                         *)
(***************************************************************************)
\* The names register_builtin_functions registers, each with its own capability.
BuiltinNames ==
    {"abs", "avg", "ceil", "contains", "ends_with", "floor", "join", "keys",
     "length", "map", "min", "max", "max_by", "min_by", "merge", "not_null",
     "reverse", "sort", "sort_by", "starts_with", "sum", "to_array",
     "to_number", "to_string", "type", "values"}
BuiltinFn(name) == <<"builtin", name>>

\* What the calls of the model are made with.
CallNames == {"abs", "avg", "my_fn"}
CallFns   == {<<"custom", "f">>, <<"custom", "g">>}

\* HashMap::get(name).
HashMapGet(m, name) == IF name \in DOMAIN m THEN Some(m[name]) ELSE None

\* Runtime::new(): an empty map.
RuntimeNew == EmptyMap

\* register_function with a bug: an existing binding is kept.
register_function_keep(fs, name, f) ==
    IF name \in DOMAIN fs THEN fs ELSE MapInsert(fs, name, f)

\* self.functions.insert(name.to_owned(), f.into())
register_function(fs, name, f) == MapInsert(fs, name, f)

\* self.functions.remove(name): the map after the call and the value returned.
deregister_function(fs, name) ==
    [functions |-> MapRemove(fs, name), ret |-> HashMapGet(fs, name)]

\* self.functions.get(name).map(AsRef::as_ref)
get_function(fs, name) == HashMapGet(fs, name)

\* register_builtin_functions: one register_function call per builtin name.
register_builtin_functions(fs) ==
    [n \in (DOMAIN fs) \cup BuiltinNames |->
        IF n \in BuiltinNames THEN register_function(fs, n, BuiltinFn(n))[n] ELSE fs[n]]

InitRuntimeIdle ==
    /\ functions = RuntimeNew
    /\ prev = RuntimeNew
    /\ last = [op |-> "new"]
    /\ history = <<>>

InitRuntime == InitRuntimeIdle

RegisterFunction ==
    /\ Len(history) < MaxOps
    /\ \E name \in CallNames, f \in CallFns :
          /\ functions' = register_function(functions, name, f)
          /\ last' = [op |-> "register", name |-> name, f |-> f]
          /\ history' = Append(history, [op |-> "register", name |-> name, f |-> f])
    /\ prev' = functions
    /\ UNCHANGED <<interpVars, sliceVars>>

DeregisterFunction ==
    /\ Len(history) < MaxOps
    /\ \E name \in CallNames :
          /\ functions' = deregister_function(functions, name).functions
          /\ last' = [op |-> "deregister", name |-> name,
                      ret |-> deregister_function(functions, name).ret]
          /\ history' = Append(history, [op |-> "deregister", name |-> name])
    /\ prev' = functions
    /\ UNCHANGED <<interpVars, sliceVars>>

GetFunction ==
    /\ \E name \in CallNames :
          last' = [op |-> "get", name |-> name, ret |-> get_function(functions, name)]
    /\ prev' = functions
    /\ UNCHANGED <<functions, history>>
    /\ UNCHANGED <<interpVars, sliceVars>>

RegisterBuiltinFunctions ==
    /\ Len(history) < MaxOps
    /\ functions' = register_builtin_functions(functions)
    /\ prev' = functions
    /\ last' = [op |-> "register_builtin"]
    /\ history' = Append(history, [op |-> "register_builtin"])
    /\ UNCHANGED <<interpVars, sliceVars>>

NextRuntime ==
    \/ RegisterFunction
    \/ DeregisterFunction
    \/ GetFunction
    \/ RegisterBuiltinFunctions

-----------------------------------------------------------------------------
(***************************************************************************)
(* The methods of Variable the interpreter calls.                          *)
(***************************************************************************)
is_null(x)  == x.t = "null"
get_type(x) == x.t

\* null, false, "", [] and {} are falsy; everything else, 0 included, is truthy.
is_truthy(x) ==
    CASE x.t = "null"    -> FALSE
      [] x.t = "boolean" -> x.v
      [] x.t = "string"  -> x.v # ""
      [] x.t = "array"   -> Len(x.v) > 0
      [] x.t = "object"  -> DOMAIN x.v # {}
      [] OTHER           -> TRUE

as_array(x) == IF x.t = "array" THEN Some(x.v) ELSE None

get_value(x, name) ==
    IF x.t = "object" /\ name \in DOMAIN x.v THEN Some(x.v[name]) ELSE None

get_index(x, index) ==
    IF x.t = "array" /\ index < Len(x.v) THEN Some(x.v[index + 1]) ELSE None

get_negative_index(x, index) ==
    IF x.t = "array" /\ index <= Len(x.v) THEN Some(x.v[Len(x.v) - index + 1]) ELSE None

\* The keys an object of the model may hold, in the order a BTreeMap iterates.
KeyOrder ==
    <<"", "a", "array", "boolean", "expref", "j", "k", "null", "number", "object", "string">>

RECURSIVE ValuesFrom(_, _)
ValuesFrom(m, k) ==
    IF k > Len(KeyOrder) THEN <<>>
    ELSE IF KeyOrder[k] \in DOMAIN m THEN <<m[KeyOrder[k]]>> \o ValuesFrom(m, k + 1)
    ELSE ValuesFrom(m, k + 1)

\* v.values().cloned().collect()
object_values(m) == ValuesFrom(m, 1)

\* left.compare(comparator, right): None when the operands are not comparable.
compare(left, comparator, right) ==
    CASE comparator = "Eq" -> Some(left = right)
      [] comparator = "Ne" -> Some(left # right)
      [] OTHER -> IF left.t = "number" /\ right.t = "number"
                  THEN Some(left.v < right.v)
                  ELSE None

-----------------------------------------------------------------------------
(***************************************************************************)
(* The AST.  Every node carries the byte offset of its token.              *)
(***************************************************************************)
Identity(o)               == [kind |-> "Identity", offset |-> o]
Field(name, o)            == [kind |-> "Field", name |-> name, offset |-> o]
Literal(value, o)         == [kind |-> "Literal", value |-> value, offset |-> o]
Index(idx, o)             == [kind |-> "Index", idx |-> idx, offset |-> o]
Subexpr(lhs, rhs, o)      == [kind |-> "Subexpr", lhs |-> lhs, rhs |-> rhs, offset |-> o]
Or(lhs, rhs, o)           == [kind |-> "Or", lhs |-> lhs, rhs |-> rhs, offset |-> o]
And(lhs, rhs, o)          == [kind |-> "And", lhs |-> lhs, rhs |-> rhs, offset |-> o]
Not(n, o)                 == [kind |-> "Not", node |-> n, offset |-> o]
Condition(p, then, o)     == [kind |-> "Condition", predicate |-> p, then |-> then, offset |-> o]
Comparison(c, lhs, rhs, o) ==
    [kind |-> "Comparison", comparator |-> c, lhs |-> lhs, rhs |-> rhs, offset |-> o]
ObjectValues(n, o)        == [kind |-> "ObjectValues", node |-> n, offset |-> o]
Projection(lhs, rhs, o)   == [kind |-> "Projection", lhs |-> lhs, rhs |-> rhs, offset |-> o]
Flatten(n, o)             == [kind |-> "Flatten", node |-> n, offset |-> o]
MultiList(elements, o)    == [kind |-> "MultiList", elements |-> elements, offset |-> o]
KeyValuePair(key, value)  == [key |-> key, value |-> value]
MultiHash(elements, o)    == [kind |-> "MultiHash", elements |-> elements, offset |-> o]
Function(name, args, o)   == [kind |-> "Function", name |-> name, args |-> args, offset |-> o]
Expref(ast, o)            == [kind |-> "Expref", ast |-> ast, offset |-> o]
Slice(start, stop, step, o) ==
    [kind |-> "Slice", start |-> start, stop |-> stop, step |-> step, offset |-> o]

-----------------------------------------------------------------------------
(***************************************************************************)
(* Results, errors and the Context.                                        *)
(*                                                                         *)
(* The Context of the model holds the offset of the code's Context and a   *)
(* log the code does not have: one event per call of interpret (the node's *)
(* offset and the data it was called with), per registry lookup, per       *)
(* dispatch and per error the interpreter builds (with the offset of the   *)
(* node whose rule built it).  The log is only read by the properties.     *)
(***************************************************************************)
Expression == "expr"

Ok(x)  == [ok |-> TRUE, v |-> x]
Err(e) == [ok |-> FALSE, v |-> e]

\* What interpret returns and the Context it leaves behind.
Ret(res, ctx) == [res |-> res, ctx |-> ctx]

NewContext == [offset |-> 0, log |-> <<>>]

Logged(ctx, event) == [ctx EXCEPT !.log = Append(@, event)]

\* ctx.create_coordinates(): the coordinates of ctx.offset in the expression.
create_coordinates(ctx) == ctx.offset

InvalidKey(ctx, actual) ==
    [kind |-> "InvalidKey", coordinates |-> create_coordinates(ctx),
     expression |-> Expression, actual |-> actual]
InvalidSlice(ctx) ==
    [kind |-> "InvalidSlice", coordinates |-> create_coordinates(ctx),
     expression |-> Expression]
UnknownFunction(ctx, name) ==
    [kind |-> "UnknownFunction", coordinates |-> create_coordinates(ctx),
     expression |-> Expression, function |-> name]

\* An error built by the rule of node n, returned with the Context as it is.
Raise(e, n, ctx) ==
    Ret(Err(e), Logged(ctx, [ev |-> "fault", offset |-> n.offset, kind |-> e.kind]))

\* A panic unwinds through every caller, as an error does through try!.
Panic == Err([kind |-> "panic"])

-----------------------------------------------------------------------------
(***************************************************************************)
(* The functions of the interpreter's registry.  Their bodies are not part *)
(* of the interpreter: two of the core functions stand for all of them,    *)
(* one that fails on an arity mismatch and one that never fails.           *)
(***************************************************************************)
Functions == [not_null |-> "NotNullFn", type |-> "TypeFn"]

RECURSIVE FirstNonNull(_, _)
FirstNonNull(args, k) ==
    IF k > Len(args) THEN Null
    ELSE IF ~is_null(args[k]) THEN args[k]
    ELSE FirstNonNull(args, k + 1)

\* f.evaluate(fn_args, ctx)
FnEvaluate(f, fn_args, ctx) ==
    CASE f = "NotNullFn" ->
            IF Len(fn_args) = 0
            THEN Err([kind |-> "NotEnoughArguments", coordinates |-> create_coordinates(ctx),
                      expression |-> Expression])
            ELSE Ok(FirstNonNull(fn_args, 1))
      [] OTHER ->
            IF Len(fn_args) = 0
            THEN Err([kind |-> "NotEnoughArguments", coordinates |-> create_coordinates(ctx),
                      expression |-> Expression])
            ELSE IF Len(fn_args) > 1
            THEN Err([kind |-> "TooManyArguments", coordinates |-> create_coordinates(ctx),
                      expression |-> Expression])
            ELSE Ok(Str(get_type(fn_args[1])))

-----------------------------------------------------------------------------
(***************************************************************************)
(* TreeInterpreter::interpret, one operator per match arm.  Each takes the *)
(* Context and returns the result with the Context as the arm leaves it.   *)
(***************************************************************************)
RECURSIVE interpret(_, _, _)

\* ctx.offset = *offset, at the start of every arm.
SetOffset(ctx, node, data) ==
    [offset |-> node.offset,
     log |-> Append(ctx.log, [ev |-> "interpret", offset |-> node.offset, data |-> data])]

InterpretSubexpr(data, node, ctx) ==
    LET left_result == interpret(data, node.lhs, SetOffset(ctx, node, data))
    IN IF ~left_result.res.ok THEN left_result
       ELSE interpret(left_result.res.v, node.rhs, left_result.ctx)

InterpretField(data, node, ctx) ==
    LET found == get_value(data, node.name)
    IN Ret(Ok(IF found # None THEN found[1] ELSE Null), SetOffset(ctx, node, data))

InterpretIdentity(data, node, ctx) == Ret(Ok(data), SetOffset(ctx, node, data))

InterpretLiteral(data, node, ctx) == Ret(Ok(node.value), SetOffset(ctx, node, data))

InterpretIndex(data, node, ctx) ==
    LET found == IF node.idx >= 0
                 THEN get_index(data, node.idx)
                 ELSE get_negative_index(data, (-1) * node.idx)
    IN Ret(Ok(IF found # None THEN found[1] ELSE Null), SetOffset(ctx, node, data))

\* Or with a bug: the right side is evaluated before the left is tested.
InterpretOrEager(data, node, ctx) ==
    LET left == interpret(data, node.lhs, SetOffset(ctx, node, data))
        right == interpret(data, node.rhs, left.ctx)
    IN IF ~left.res.ok THEN left
       ELSE IF is_truthy(left.res.v) THEN Ret(left.res, right.ctx)
       ELSE right

InterpretOr(data, node, ctx) ==
    LET left == interpret(data, node.lhs, SetOffset(ctx, node, data))
    IN IF ~left.res.ok THEN left
       ELSE IF is_truthy(left.res.v) THEN left
       ELSE interpret(data, node.rhs, left.ctx)

InterpretAnd(data, node, ctx) ==
    LET left == interpret(data, node.lhs, SetOffset(ctx, node, data))
    IN IF ~left.res.ok THEN left
       ELSE IF ~is_truthy(left.res.v) THEN left
       ELSE interpret(data, node.rhs, left.ctx)

InterpretNot(data, node, ctx) ==
    LET result == interpret(data, node.node, SetOffset(ctx, node, data))
    IN IF ~result.res.ok THEN result
       ELSE Ret(Ok(Bool(~is_truthy(result.res.v))), result.ctx)

InterpretCondition(data, node, ctx) ==
    LET cond_result == interpret(data, node.predicate, SetOffset(ctx, node, data))
    IN IF ~cond_result.res.ok THEN cond_result
       ELSE IF is_truthy(cond_result.res.v) THEN interpret(data, node.then, cond_result.ctx)
       ELSE Ret(Ok(Null), cond_result.ctx)

InterpretComparison(data, node, ctx) ==
    LET left == interpret(data, node.lhs, SetOffset(ctx, node, data))
        right == interpret(data, node.rhs, left.ctx)
        result == compare(left.res.v, node.comparator, right.res.v)
    IN IF ~left.res.ok THEN left
       ELSE IF ~right.res.ok THEN right
       ELSE Ret(Ok(IF result # None THEN Bool(result[1]) ELSE Null), right.ctx)

InterpretObjectValues(data, node, ctx) ==
    LET subject == interpret(data, node.node, SetOffset(ctx, node, data))
    IN IF ~subject.res.ok THEN subject
       ELSE IF subject.res.v.t = "object"
       THEN Ret(Ok(Arr(object_values(subject.res.v.v))), subject.ctx)
       ELSE Ret(Ok(Null), subject.ctx)

\* for element in left { ... }, from the k-th element on.
RECURSIVE ProjectionLoop(_, _, _, _, _)

\* The loop with a bug: a null result is collected like any other.
ProjectionLoopKeepNull(left, k, rhs, ctx, collected) ==
    IF k > Len(left) THEN Ret(Ok(Arr(collected)), ctx)
    ELSE LET current == interpret(left[k], rhs, ctx)
         IN IF ~current.res.ok THEN current
            ELSE ProjectionLoop(left, k + 1, rhs, current.ctx,
                                Append(collected, current.res.v))

ProjectionLoop(left, k, rhs, ctx, collected) ==
    IF k > Len(left) THEN Ret(Ok(Arr(collected)), ctx)
    ELSE LET current == interpret(left[k], rhs, ctx)
         IN IF ~current.res.ok THEN current
            ELSE ProjectionLoop(left, k + 1, rhs, current.ctx,
                                IF ~is_null(current.res.v)
                                THEN Append(collected, current.res.v)
                                ELSE collected)

InterpretProjection(data, node, ctx) ==
    LET lhs == interpret(data, node.lhs, SetOffset(ctx, node, data))
    IN IF ~lhs.res.ok THEN lhs
       ELSE IF as_array(lhs.res.v) = None THEN Ret(Ok(Null), lhs.ctx)
       ELSE ProjectionLoop(as_array(lhs.res.v)[1], 1, node.rhs, lhs.ctx, <<>>)

\* for element in a { ... }: arrays contribute their members, the rest themselves.
RECURSIVE FlattenLoop(_, _)
FlattenLoop(a, k) ==
    IF k > Len(a) THEN <<>>
    ELSE (IF as_array(a[k]) # None THEN as_array(a[k])[1] ELSE <<a[k]>>)
             \o FlattenLoop(a, k + 1)

InterpretFlatten(data, node, ctx) ==
    LET subject == interpret(data, node.node, SetOffset(ctx, node, data))
    IN IF ~subject.res.ok THEN subject
       ELSE IF as_array(subject.res.v) = None THEN Ret(Ok(Null), subject.ctx)
       ELSE Ret(Ok(Arr(FlattenLoop(as_array(subject.res.v)[1], 1))), subject.ctx)

\* for node in elements { collected.push(try!(...)) }, from the k-th element on.
RECURSIVE MultiListLoop(_, _, _, _, _)
MultiListLoop(data, elements, k, ctx, collected) ==
    IF k > Len(elements) THEN Ret(Ok(Arr(collected)), ctx)
    ELSE LET current == interpret(data, elements[k], ctx)
         IN IF ~current.res.ok THEN current
            ELSE MultiListLoop(data, elements, k + 1, current.ctx,
                               Append(collected, current.res.v))

InterpretMultiList(data, node, ctx) ==
    IF is_null(data) THEN Ret(Ok(Null), SetOffset(ctx, node, data))
    ELSE MultiListLoop(data, node.elements, 1, SetOffset(ctx, node, data), <<>>)

\* for kvp in elements { ... }, from the k-th pair on.
RECURSIVE MultiHashLoop(_, _, _, _, _)

\* The loop with a bug: a key that is no string is skipped instead of refused.
MultiHashLoopSkipKey(data, node, k, ctx, collected) ==
    IF k > Len(node.elements) THEN Ret(Ok(Obj(collected)), ctx)
    ELSE LET kvp == node.elements[k]
             key == interpret(data, kvp.key, ctx)
             value == interpret(data, kvp.value, key.ctx)
         IN IF ~key.res.ok THEN key
            ELSE IF ~value.res.ok THEN value
            ELSE IF key.res.v.t = "string"
            THEN MultiHashLoop(data, node, k + 1, value.ctx,
                               MapInsert(collected, key.res.v.v, value.res.v))
            ELSE MultiHashLoop(data, node, k + 1, value.ctx, collected)

MultiHashLoop(data, node, k, ctx, collected) ==
    IF k > Len(node.elements) THEN Ret(Ok(Obj(collected)), ctx)
    ELSE LET kvp == node.elements[k]
             key == interpret(data, kvp.key, ctx)
             value == interpret(data, kvp.value, key.ctx)
         IN IF ~key.res.ok THEN key
            ELSE IF ~value.res.ok THEN value
            ELSE IF key.res.v.t = "string"
            THEN MultiHashLoop(data, node, k + 1, value.ctx,
                               MapInsert(collected, key.res.v.v, value.res.v))
            ELSE Raise(InvalidKey(value.ctx, get_type(key.res.v)), node, value.ctx)

InterpretMultiHash(data, node, ctx) ==
    IF is_null(data) THEN Ret(Ok(Null), SetOffset(ctx, node, data))
    ELSE MultiHashLoop(data, node, 1, SetOffset(ctx, node, data), EmptyMap)

\* for arg in args { fn_args.push(try!(...)) }, from the k-th argument on.
RECURSIVE FunctionArgsLoop(_, _, _, _, _)

\* The loop with a bug: a failing argument does not stop the evaluation of
\* the ones after it.
FunctionArgsLoopGoOn(data, args, k, ctx, fn_args) ==
    IF k > Len(args) THEN Ret(Ok(fn_args), ctx)
    ELSE LET current == interpret(data, args[k], ctx)
             rest == FunctionArgsLoop(data, args, k + 1, current.ctx, fn_args)
         IN IF ~current.res.ok THEN Ret(current.res, rest.ctx)
            ELSE FunctionArgsLoop(data, args, k + 1, current.ctx,
                                  Append(fn_args, current.res.v))

FunctionArgsLoop(data, args, k, ctx, fn_args) ==
    IF k > Len(args) THEN Ret(Ok(fn_args), ctx)
    ELSE LET current == interpret(data, args[k], ctx)
         IN IF ~current.res.ok THEN current
            ELSE FunctionArgsLoop(data, args, k + 1, current.ctx,
                                  Append(fn_args, current.res.v))

\* The lookup and the dispatch, with a bug: the offset is not reset first.
FunctionDispatchNoReset(node, fn_args, ctx) ==
    LET looked == Logged(ctx, [ev |-> "lookup", offset |-> node.offset, name |-> node.name])
    IN IF node.name \in DOMAIN Functions
       THEN Ret(FnEvaluate(Functions[node.name], fn_args, looked),
                Logged(looked, [ev |-> "dispatch", offset |-> node.offset,
                                name |-> node.name, args |-> fn_args]))
       ELSE Raise(UnknownFunction(looked, node.name), node, looked)

\* ctx.offset = *offset; match self.functions.get(name) { ... }
FunctionDispatch(node, fn_args, ctx) ==
    LET reset == [ctx EXCEPT !.offset = node.offset]
        looked == Logged(reset, [ev |-> "lookup", offset |-> node.offset, name |-> node.name])
    IN IF node.name \in DOMAIN Functions
       THEN Ret(FnEvaluate(Functions[node.name], fn_args, looked),
                Logged(looked, [ev |-> "dispatch", offset |-> node.offset,
                                name |-> node.name, args |-> fn_args]))
       ELSE Raise(UnknownFunction(looked, node.name), node, looked)

InterpretFunction(data, node, ctx) ==
    LET evaluated == FunctionArgsLoop(data, node.args, 1, SetOffset(ctx, node, data), <<>>)
    IN IF ~evaluated.res.ok THEN evaluated
       ELSE FunctionDispatch(node, evaluated.res.v, evaluated.ctx)

InterpretExpref(data, node, ctx) ==
    Ret(Ok(ExprefVal(node.ast)), SetOffset(ctx, node, data))

\* The Slice arm with a bug: the step is only checked for an array.
InterpretSliceLateCheck(data, node, ctx) ==
    LET c == SetOffset(ctx, node, data)
    IN IF as_array(data) = None THEN Ret(Ok(Null), c)
       ELSE IF node.step = 0 THEN Raise(InvalidSlice(c), node, c)
       ELSE LET sliced == slice(as_array(data)[1], node.start, node.stop, node.step)
            IN IF sliced.panic THEN Ret(Panic, c) ELSE Ret(Ok(Arr(sliced.result)), c)

InterpretSlice(data, node, ctx) ==
    LET c == SetOffset(ctx, node, data)
    IN IF node.step = 0 THEN Raise(InvalidSlice(c), node, c)
       ELSE IF as_array(data) # None
       THEN LET sliced == slice(as_array(data)[1], node.start, node.stop, node.step)
            IN IF sliced.panic THEN Ret(Panic, c) ELSE Ret(Ok(Arr(sliced.result)), c)
       ELSE Ret(Ok(Null), c)

interpret(data, node, ctx) ==
    CASE node.kind = "Subexpr"      -> InterpretSubexpr(data, node, ctx)
      [] node.kind = "Field"        -> InterpretField(data, node, ctx)
      [] node.kind = "Identity"     -> InterpretIdentity(data, node, ctx)
      [] node.kind = "Literal"      -> InterpretLiteral(data, node, ctx)
      [] node.kind = "Index"        -> InterpretIndex(data, node, ctx)
      [] node.kind = "Or"           -> InterpretOr(data, node, ctx)
      [] node.kind = "And"          -> InterpretAnd(data, node, ctx)
      [] node.kind = "Not"          -> InterpretNot(data, node, ctx)
      [] node.kind = "Condition"    -> InterpretCondition(data, node, ctx)
      [] node.kind = "Comparison"   -> InterpretComparison(data, node, ctx)
      [] node.kind = "ObjectValues" -> InterpretObjectValues(data, node, ctx)
      [] node.kind = "Projection"   -> InterpretProjection(data, node, ctx)
      [] node.kind = "Flatten"      -> InterpretFlatten(data, node, ctx)
      [] node.kind = "MultiList"    -> InterpretMultiList(data, node, ctx)
      [] node.kind = "MultiHash"    -> InterpretMultiHash(data, node, ctx)
      [] node.kind = "Function"     -> InterpretFunction(data, node, ctx)
      [] node.kind = "Expref"       -> InterpretExpref(data, node, ctx)
      [] node.kind = "Slice"        -> InterpretSlice(data, node, ctx)

-----------------------------------------------------------------------------
(***************************************************************************)
(* Spec: interpret applied to one AST and one input.                       *)
(*                                                                         *)
(* The ASTs are the trees of the shapes below, at most two levels below    *)
(* the root.  The k-th child of the node at offset o sits at offset        *)
(* 4*o + k, so no two nodes of a tree share an offset.                     *)
(***************************************************************************)
Child(o, k) == 4 * o + k

FunctionNames == {"not_null", "type", "unknown_fn"}

Leaves(o) ==
    {Identity(o), Field("a", o), Literal(Str("k"), o), Literal(Null, o),
     Index(0, o), Index(-1, o), Slice(None, None, 0, o), Slice(Some(1), None, 1, o),
     Function("unknown_fn", <<>>, o), Function("not_null", <<>>, o)}

CoreLeaves(o) == {Identity(o), Field("a", o), Function("unknown_fn", <<>>, o)}

KeyLeaves(o) == {Literal(Str("k"), o), Literal(Str("j"), o), Identity(o), Field("a", o)}

Binary(ls, rs, o) ==
    {Subexpr(l, r, o) : l \in ls, r \in rs}
        \cup {Or(l, r, o) : l \in ls, r \in rs}
        \cup {And(l, r, o) : l \in ls, r \in rs}
        \cup {Condition(l, r, o) : l \in ls, r \in rs}
        \cup {Projection(l, r, o) : l \in ls, r \in rs}
        \cup {Comparison(c, l, r, o) : c \in {"Eq", "Lt"}, l \in ls, r \in rs}

Unary(ns, o) ==
    {Not(n, o) : n \in ns}
        \cup {ObjectValues(n, o) : n \in ns}
        \cup {Flatten(n, o) : n \in ns}
        \cup {Expref(n, o) : n \in ns}

\* The sequences of one or two trees, the first from xs and the second from ys.
Lists(xs, ys) == {<<x>> : x \in xs} \cup {<<x, y>> : x \in xs, y \in ys}

Calls(argss, o) == {Function(name, args, o) : name \in FunctionNames, args \in argss}

Hashes(ks, vs, o) == {MultiHash(<<KeyValuePair(k, v)>>, o) : k \in ks, v \in vs}

Hashes2(ks, vs, ks2, vs2, o) ==
    {MultiHash(<<KeyValuePair(k, v), KeyValuePair(k2, v2)>>, o) :
        k \in ks, v \in vs, k2 \in ks2, v2 \in vs2}

\* Small trees one level deep, the children of the deepest trees.
Mid(o) ==
    {Or(l, r, o) : l \in CoreLeaves(Child(o, 1)), r \in CoreLeaves(Child(o, 2))}
        \cup {And(l, r, o) : l \in CoreLeaves(Child(o, 1)), r \in CoreLeaves(Child(o, 2))}
        \cup {Subexpr(l, r, o) : l \in CoreLeaves(Child(o, 1)), r \in CoreLeaves(Child(o, 2))}
        \cup {Not(n, o) : n \in CoreLeaves(Child(o, 1))}
        \cup Calls({<<x>> : x \in CoreLeaves(Child(o, 1))}, o)
        \cup Hashes({Literal(Str("k"), Child(o, 1)), Identity(Child(o, 1))},
                    CoreLeaves(Child(o, 2)), o)

Depth1(o) ==
    Binary(Leaves(Child(o, 1)), Leaves(Child(o, 2)), o)
        \cup Unary(Leaves(Child(o, 1)), o)
        \cup {MultiList(es, o) : es \in {<<>>} \cup Lists(Leaves(Child(o, 1)), Leaves(Child(o, 2)))}
        \cup Calls(Lists(Leaves(Child(o, 1)), Leaves(Child(o, 2))), o)
        \cup Hashes(KeyLeaves(Child(o, 1)), Leaves(Child(o, 2)), o)
        \cup Hashes2(KeyLeaves(Child(o, 1)), CoreLeaves(Child(o, 2)),
                     KeyLeaves(Child(o, 3)), CoreLeaves(Child(o, 4)), o)

Depth2(o) ==
    {Or(l, r, o) : l \in Leaves(Child(o, 1)), r \in Mid(Child(o, 2))}
        \cup {And(l, r, o) : l \in Leaves(Child(o, 1)), r \in Mid(Child(o, 2))}
        \cup {Or(l, r, o) : l \in Mid(Child(o, 1)), r \in CoreLeaves(Child(o, 2))}
        \cup {Projection(l, r, o) : l \in CoreLeaves(Child(o, 1)), r \in Mid(Child(o, 2))}
        \cup Calls(Lists(Mid(Child(o, 1)), CoreLeaves(Child(o, 2))), o)
        \cup Calls({<<x, y>> : x \in CoreLeaves(Child(o, 1)), y \in Mid(Child(o, 2))}, o)
        \cup Hashes(KeyLeaves(Child(o, 1)), Mid(Child(o, 2)), o)
        \cup {Slice(start, stop, 0, o) :
                 start \in {None, Some(-1), Some(1)}, stop \in {None, Some(-1), Some(2)}}

\* The root sits at offset 1: the offset a new Context starts with is 0.
Asts == Leaves(1) \cup Depth1(1) \cup Depth2(1)

\* The input values: scalars, objects, and arrays of every length up to MaxLen.
Elements == <<Obj([a |-> Num(1)]), Null, Obj([a |-> Str("k")])>>
ArrayFrom(n, p) == [k \in 1..n |-> Elements[((k + p) % 3) + 1]]

Inputs ==
    {Null, Bool(FALSE), Num(0), Str("k"), Obj(EmptyMap), Obj([a |-> Num(1)]),
     Obj([a |-> Arr(<<Null, Num(1)>>)]), Obj([a |-> Str("j")])}
        \cup {Arr(ArrayFrom(n, p)) : n \in 0..MaxLen, p \in 0..2}

InitInterpIdle ==
    /\ root = Identity(0)
    /\ input = Null
    /\ phase = "done"
    /\ outcome = Ret(Ok(Null), NewContext)

InitInterp ==
    /\ root \in Asts
    /\ input \in Inputs
    /\ phase = "ready"
    /\ outcome = Ret(Ok(Null), NewContext)

\* Expression::search: interpret the AST against the input with a new Context.
Search ==
    /\ phase = "ready"
    /\ outcome' = interpret(input, root, NewContext)
    /\ phase' = "done"
    /\ UNCHANGED <<root, input>>
    /\ UNCHANGED <<sliceVars, runtimeVars>>

NextInterp == Search

-----------------------------------------------------------------------------
(***************************************************************************)
(* The specifications.                                                     *)
(***************************************************************************)
Init == InitInterp /\ InitSliceIdle /\ InitRuntimeIdle
Next == NextInterp
Spec == Init /\ [][Next]_vars

SliceInit == InitInterpIdle /\ InitSlice /\ InitRuntimeIdle
SpecSlice == SliceInit /\ [][NextSlice]_vars

RuntimeInit == InitInterpIdle /\ InitSliceIdle /\ InitRuntime
SpecRuntime == RuntimeInit /\ [][NextRuntime]_vars

-----------------------------------------------------------------------------
(***************************************************************************)
(* Properties of slice() (SpecSlice).                                      *)
(***************************************************************************)
Clamp(x, lo, hi) == IF x < lo THEN lo ELSE IF x > hi THEN hi ELSE x

\* Where a stride slice starts and stops, for a sequence of length len.
StrideStart(len, start, step) ==
    IF start = None THEN (IF step > 0 THEN 0 ELSE len - 1)
    ELSE LET x == IF start[1] < 0 THEN start[1] + len ELSE start[1]
         IN IF step > 0 THEN Clamp(x, 0, len) ELSE Clamp(x, -1, len - 1)

StrideStop(len, stop, step) ==
    IF stop = None THEN (IF step > 0 THEN len ELSE -1)
    ELSE LET x == IF stop[1] < 0 THEN stop[1] + len ELSE stop[1]
         IN IF step > 0 THEN Clamp(x, 0, len) ELSE Clamp(x, -1, len - 1)

\* Whether index k is one of s, s + step, s + 2*step, ... (k and s lie in
\* -1..len, so a stride longer than len reaches only s itself).
OnStride(k, s, step, len) ==
    \/ k = s
    \/ /\ step >= -len /\ step <= len
       /\ IF step > 0 THEN k > s /\ (k - s) % step = 0
                      ELSE k < s /\ (s - k) % (-step) = 0

Selected(k, s, e, step, len) ==
    /\ IF step > 0 THEN s <= k /\ k < e ELSE e < k /\ k <= s
    /\ OnStride(k, s, step, len)

\* The selected elements from index k on, in the direction of the stride.
RECURSIVE StrideFrom(_, _, _, _, _)
StrideFrom(array, k, s, e, step) ==
    IF k < 0 \/ k >= Len(array) THEN <<>>
    ELSE (IF Selected(k, s, e, step, Len(array)) THEN <<array[k + 1]>> ELSE <<>>)
             \o StrideFrom(array, IF step > 0 THEN k + 1 ELSE k - 1, s, e, step)

\* a[start:stop:step]
StrideSlice(array, start, stop, step) ==
    LET len == Len(array)
    IN StrideFrom(array, IF step > 0 THEN 0 ELSE len - 1,
                  StrideStart(len, start, step), StrideStop(len, stop, step), step)

\* C1: for every array, every optional start and stop and every step other
\* than 0, slice returns, and returns the stride slice a[start:stop:step].
C1_SliceIsStrideSlice ==
    s_pc \in {"done", "panic"} =>
        /\ s_pc = "done"
        /\ s_result = StrideSlice(s_array, s_start, s_stop, s_step)

\* Whenever slice does return, it returns the stride slice.
SliceReturnsStrideSlice ==
    s_pc = "done" => s_result = StrideSlice(s_array, s_start, s_stop, s_step)

\* The function slice() and its statement-by-statement run agree.
SliceRunAgrees ==
    /\ s_pc = "done" =>
          slice(s_array, s_start, s_stop, s_step) = [panic |-> FALSE, result |-> s_result]
    /\ s_pc = "panic" => slice(s_array, s_start, s_stop, s_step).panic

\* C10: over the whole i32 range of start, stop and step, i += step never
\* overflows and every index the loop reads lies in 0..len-1 (so the loop
\* runs to its end without a panic).
C10_SliceLoopSafe ==
    /\ s_fault = "none"
    /\ (s_pc = "add" => ~AddOverflows(s_i, s_step))
    /\ (s_pc = "loop" /\ SliceCond(s_i, s_b, s_step) => InBounds(s_array, s_i))

-----------------------------------------------------------------------------
(***************************************************************************)
(* Properties of the registry (SpecRuntime).                               *)
(***************************************************************************)
\* Every name a call of the model can bind or look up.
AllNames == CallNames \cup BuiltinNames

\* What the first k calls of the history leave bound to name: the capability
\* of the most recent registration of the name that no later deregistration
\* of it followed.
RECURSIVE BoundAfter(_, _)
BoundAfter(k, name) ==
    IF k = 0 THEN None
    ELSE LET call == history[k]
         IN CASE call.op = "register" /\ call.name = name -> Some(call.f)
              [] call.op = "deregister" /\ call.name = name -> None
              [] call.op = "register_builtin" /\ name \in BuiltinNames -> Some(BuiltinFn(name))
              [] OTHER -> BoundAfter(k - 1, name)

\* C7: get_function returns the most recent registration that no later
\* deregistration followed (None when there is none); deregister_function
\* returns the binding it removes and leaves the name unbound; no call
\* changes the binding of another name.
C7_RegistryTracksCalls ==
    /\ \A name \in AllNames :
          get_function(functions, name) = BoundAfter(Len(history), name)
    /\ last.op = "get" => last.ret = BoundAfter(Len(history), last.name)
    /\ last.op = "deregister" =>
          /\ last.ret = BoundAfter(Len(history) - 1, last.name)
          /\ last.ret = get_function(prev, last.name)
          /\ get_function(functions, last.name) = None
    /\ last.op = "register" => get_function(functions, last.name) = Some(last.f)
    /\ last.op \in {"register", "deregister"} =>
          \A other \in AllNames \ {last.name} :
              get_function(functions, other) = get_function(prev, other)
    /\ last.op = "get" => functions = prev

\* A registration overwrote another one, and a deregistration returned the
\* overwriting capability.
C7_Witness ==
    /\ Len(history) >= 3
    /\ history[1].op = "register"
    /\ history[2].op = "register"
    /\ history[2].name = history[1].name
    /\ history[2].f # history[1].f
    /\ last.op = "deregister"
    /\ last.name = history[1].name
    /\ last.ret = Some(history[2].f)
    /\ Len(history) = 3

-----------------------------------------------------------------------------
(***************************************************************************)
(* Properties of interpret (Spec).                                         *)
(***************************************************************************)
\* The sub-expressions of a node, in the order its rule evaluates them.
RECURSIVE PairNodes(_, _)
PairNodes(elements, k) ==
    IF k > Len(elements) THEN <<>>
    ELSE <<elements[k].key, elements[k].value>> \o PairNodes(elements, k + 1)

Children(node) ==
    CASE node.kind \in {"Subexpr", "Or", "And", "Comparison", "Projection"} ->
            <<node.lhs, node.rhs>>
      [] node.kind = "Condition" -> <<node.predicate, node.then>>
      [] node.kind \in {"Not", "ObjectValues", "Flatten"} -> <<node.node>>
      [] node.kind = "Expref" -> <<node.ast>>
      [] node.kind = "MultiList" -> node.elements
      [] node.kind = "MultiHash" -> PairNodes(node.elements, 1)
      [] node.kind = "Function" -> node.args
      [] OTHER -> <<>>

\* The offsets of a node and of every node below it.
RECURSIVE OffsetsOf(_)
OffsetsOf(node) ==
    {node.offset} \cup
        UNION {OffsetsOf(Children(node)[k]) : k \in DOMAIN Children(node)}

\* Every node of a tree.
RECURSIVE NodesOf(_)
NodesOf(node) ==
    {node} \cup UNION {NodesOf(Children(node)[k]) : k \in DOMAIN Children(node)}

\* What a node evaluates to against a value, on its own.
Eval(data, node) == interpret(data, node, NewContext).res

Log == outcome.ctx.log

\* The positions of the log with an event of sort ev at one of the offsets.
EventsAt(ev, offsets) ==
    {p \in DOMAIN Log : Log[p].ev = ev /\ Log[p].offset \in offsets}

\* The positions of the log with any event at one of the offsets.
TouchedAt(offsets) == {p \in DOMAIN Log : Log[p].offset \in offsets}

IsError(res, kind) == ~res.ok /\ res.v.kind = kind

\* C8: a Slice node whose step is 0 fails with InvalidSlice whatever the
\* input (array, empty array, non-array, null) and whatever start and stop.
C8_ZeroStepIsInvalidSlice ==
    phase = "done" =>
        /\ (root.kind = "Slice" /\ root.step = 0 =>
               outcome.res = Err([kind |-> "InvalidSlice", coordinates |-> root.offset,
                                  expression |-> Expression]))
        /\ \A n \in NodesOf(root) :
              n.kind = "Slice" /\ n.step = 0 /\ EventsAt("interpret", {n.offset}) # {} =>
                  IsError(outcome.res, "InvalidSlice")

\* A zero step, with a start given, met with an input that is no array.
C8_Witness ==
    /\ phase = "done"
    /\ root.kind = "Slice" /\ root.step = 0 /\ root.start # None
    /\ input.t = "string"
    /\ IsError(outcome.res, "InvalidSlice")

\* C3: an InvalidKey, InvalidSlice or UnknownFunction error carries the
\* offset of the node whose rule built it.
C3_ErrorCarriesNodeOffset ==
    phase = "done"
        /\ ~outcome.res.ok
        /\ outcome.res.v.kind \in {"InvalidKey", "InvalidSlice", "UnknownFunction"}
    => /\ Log[Len(Log)].ev = "fault"
       /\ outcome.res.v.coordinates = Log[Len(Log)].offset

\* The same, for the two kinds of error other than InvalidKey.
ErrorCarriesNodeOffsetButInvalidKey ==
    phase = "done"
        /\ ~outcome.res.ok
        /\ outcome.res.v.kind \in {"InvalidSlice", "UnknownFunction"}
    => /\ Log[Len(Log)].ev = "fault"
       /\ outcome.res.v.coordinates = Log[Len(Log)].offset

\* Whether the left side of an Or or And node decides the result.
LeftDecides(node, left) ==
    IF node.kind = "Or" THEN is_truthy(left.v) ELSE ~is_truthy(left.v)

\* C4: when the left side of Or is truthy (of And, falsy) nothing of the
\* right side is evaluated and the result is the left value; otherwise the
\* right side is evaluated once, against the original input, and its result
\* or error is the result.
C4_ShortCircuit ==
    phase = "done" /\ root.kind \in {"Or", "And"} =>
        LET left == Eval(input, root.lhs)
            right == Eval(input, root.rhs)
        IN IF ~left.ok
           THEN outcome.res = left /\ TouchedAt(OffsetsOf(root.rhs)) = {}
           ELSE IF LeftDecides(root, left)
           THEN outcome.res = left /\ TouchedAt(OffsetsOf(root.rhs)) = {}
           ELSE /\ outcome.res = right
                /\ Cardinality(EventsAt("interpret", {root.rhs.offset})) = 1
                /\ \A p \in EventsAt("interpret", {root.rhs.offset}) : Log[p].data = input

\* The left side decided and the right side, which holds a call of an
\* unknown function and would have failed, was not evaluated.
C4_Witness ==
    /\ phase = "done"
    /\ root.kind \in {"Or", "And"}
    /\ Eval(input, root.lhs).ok
    /\ LeftDecides(root, Eval(input, root.lhs))
    /\ \E n \in NodesOf(root.rhs) : n.kind = "Function"
    /\ ~Eval(input, root.rhs).ok
    /\ outcome.res.ok

\* The values of the results that are not null, in order.
RECURSIVE NonNull(_, _)
NonNull(results, k) ==
    IF k > Len(results) THEN <<>>
    ELSE (IF results[k].v.t = "null" THEN <<>> ELSE <<results[k].v>>)
             \o NonNull(results, k + 1)

\* The data of the interpret events at an offset, in the order of the log.
RECURSIVE DataAt(_, _)
DataAt(offset, k) ==
    IF k > Len(Log) THEN <<>>
    ELSE (IF Log[k].ev = "interpret" /\ Log[k].offset = offset THEN <<Log[k].data>> ELSE <<>>)
             \o DataAt(offset, k + 1)

\* C5: a projection over an array returns the right side's results for the
\* elements in order, the null ones left out; over anything else it returns
\* null and does not evaluate the right side.
C5_ProjectionDropsNull ==
    phase = "done" /\ root.kind = "Projection" /\ Eval(input, root.lhs).ok =>
        LET left == Eval(input, root.lhs).v
            results == [k \in 1..Len(left.v) |-> Eval(left.v[k], root.rhs)]
        IN IF left.t # "array"
           THEN outcome.res = Ok(Null) /\ TouchedAt(OffsetsOf(root.rhs)) = {}
           ELSE IF \A k \in 1..Len(left.v) : results[k].ok
           THEN /\ outcome.res = Ok(Arr(NonNull(results, 1)))
                /\ DataAt(root.rhs.offset, 1) = left.v
                /\ \A k \in 1..Len(outcome.res.v.v) : outcome.res.v.v[k] # Null
           ELSE \E k \in 1..Len(left.v) :
                    /\ ~results[k].ok
                    /\ \A j \in 1..(k - 1) : results[j].ok
                    /\ outcome.res = results[k]

\* A projection over three elements or more that dropped some and kept some.
C5_Witness ==
    /\ phase = "done"
    /\ root.kind = "Projection"
    /\ Eval(input, root.lhs).ok
    /\ Eval(input, root.lhs).v.t = "array"
    /\ Len(Eval(input, root.lhs).v.v) >= 3
    /\ outcome.res.ok
    /\ Len(outcome.res.v.v) > 0
    /\ Len(outcome.res.v.v) < Len(Eval(input, root.lhs).v.v)

\* What the arguments of a Function node evaluate to, each on its own.
ArgResults(data, node) == [k \in 1..Len(node.args) |-> Eval(data, node.args[k])]

AllOk(results) == \A k \in 1..Len(results) : results[k].ok

\* C6: a call of a function the registry does not hold, its arguments all
\* evaluating, fails with UnknownFunction carrying the name and the offset
\* of the Function node, wherever the arguments moved the offset.
C6_UnknownFunctionAtOwnOffset ==
    phase = "done" =>
        /\ (root.kind = "Function" /\ root.name \notin DOMAIN Functions
               /\ AllOk(ArgResults(input, root)) =>
               outcome.res = Err([kind |-> "UnknownFunction", coordinates |-> root.offset,
                                  expression |-> Expression, function |-> root.name]))
        /\ \A n \in NodesOf(root) :
              n.kind = "Function" /\ n.name \notin DOMAIN Functions
                  /\ EventsAt("lookup", {n.offset}) # {} =>
                  /\ IsError(outcome.res, "UnknownFunction")
                  /\ outcome.res.v.function = n.name
                  /\ outcome.res.v.coordinates = n.offset

\* An unknown function called with an argument that is itself a tree: its
\* evaluation left the offset at a node two levels below the call.
C6_Witness ==
    /\ phase = "done"
    /\ root.kind = "Function"
    /\ root.name = "unknown_fn"
    /\ Len(root.args) = 2
    /\ AllOk(ArgResults(input, root))
    /\ Children(root.args[2]) # <<>>
    /\ \E p \in DOMAIN Log : Log[p].ev = "interpret" /\ Log[p].offset > Child(root.offset, 4)
    /\ IsError(outcome.res, "UnknownFunction")

\* The offsets of the interpret events at the roots of the arguments, in the
\* order of the log.
RECURSIVE ArgOrder(_, _)
ArgOrder(node, k) ==
    IF k > Len(Log) THEN <<>>
    ELSE (IF Log[k].ev = "interpret"
             /\ \E j \in 1..Len(node.args) : node.args[j].offset = Log[k].offset
          THEN <<Log[k].offset>> ELSE <<>>)
             \o ArgOrder(node, k + 1)

\* The index of the first result that is an error, 0 when there is none.
FirstError(results) ==
    IF AllOk(results) THEN 0
    ELSE CHOOSE k \in 1..Len(results) :
             ~results[k].ok /\ \A j \in 1..(k - 1) : results[j].ok

\* C9: the arguments of a call are evaluated against the input from left to
\* right, each once, before the lookup and the dispatch; when one fails no
\* later one is evaluated, nothing is looked up or dispatched, and its error
\* is the result.
C9_ArgumentsEagerInOrder ==
    phase = "done" /\ root.kind = "Function" =>
        LET results == ArgResults(input, root)
            failed == FirstError(results)
            evaluated == IF failed = 0 THEN Len(root.args) ELSE failed
            below == UNION {OffsetsOf(root.args[k]) : k \in 1..Len(root.args)}
        IN /\ ArgOrder(root, 1) = [k \in 1..evaluated |-> root.args[k].offset]
           /\ \A k \in 1..evaluated : DataAt(root.args[k].offset, 1) = <<input>>
           /\ IF failed # 0
              THEN /\ outcome.res = results[failed]
                   /\ EventsAt("lookup", {root.offset}) = {}
                   /\ EventsAt("dispatch", {root.offset}) = {}
              ELSE /\ Cardinality(EventsAt("lookup", {root.offset})) = 1
                   /\ \A p \in EventsAt("lookup", {root.offset}) :
                          \A q \in TouchedAt(below) : q < p
                   /\ \A p \in EventsAt("dispatch", {root.offset}) :
                          /\ Log[p].args = [k \in 1..Len(root.args) |-> results[k].v]
                          /\ \A q \in EventsAt("lookup", {root.offset}) : q < p
                   /\ (root.name \in DOMAIN Functions
                          <=> EventsAt("dispatch", {root.offset}) # {})

\* The first of two arguments failed: the second was not evaluated and the
\* function, though registered, was not looked up.
C9_Witness ==
    /\ phase = "done"
    /\ root.kind = "Function"
    /\ root.name \in DOMAIN Functions
    /\ Len(root.args) = 2
    /\ ~Eval(input, root.args[1]).ok
    /\ TouchedAt(OffsetsOf(root.args[2])) = {}
    /\ EventsAt("lookup", {root.offset}) = {}
    /\ outcome.res = Eval(input, root.args[1])

\* Two arguments evaluated in order and handed to a registered function.
C9_WitnessDispatch ==
    /\ phase = "done"
    /\ root.kind = "Function"
    /\ Len(root.args) = 2
    /\ EventsAt("dispatch", {root.offset}) # {}

\* What the key and the value of the k-th pair evaluate to, each on its own.
KeyResult(data, node, k)   == Eval(data, node.elements[k].key)
ValueResult(data, node, k) == Eval(data, node.elements[k].value)

\* The k-th pair evaluates, key and value, and its key is a string.
PairClean(data, node, k) ==
    /\ KeyResult(data, node, k).ok
    /\ ValueResult(data, node, k).ok
    /\ KeyResult(data, node, k).v.t = "string"

\* The k-th pair is the first whose key is no string, and everything the loop
\* evaluates up to the test of that key evaluates.
ReachesBadKey(data, node, k) ==
    /\ \A j \in 1..(k - 1) : PairClean(data, node, j)
    /\ KeyResult(data, node, k).ok
    /\ KeyResult(data, node, k).v.t # "string"
    /\ ValueResult(data, node, k).ok

\* C2, as stated: a MultiHash node whose first key expression that is no
\* string evaluates (the pairs before it being clean) fails with InvalidKey
\* carrying that type, for every input and whatever its value expression does.
C2_NonStringKeyAlwaysInvalidKey ==
    phase = "done" /\ root.kind = "MultiHash" =>
        \A k \in 1..Len(root.elements) :
            (/\ \A j \in 1..(k - 1) : PairClean(input, root, j)
             /\ KeyResult(input, root, k).ok
             /\ KeyResult(input, root, k).v.t # "string")
            => /\ IsError(outcome.res, "InvalidKey")
               /\ outcome.res.v.actual = get_type(KeyResult(input, root, k).v)

\* C2, amended: against an input that is not null, a MultiHash node fails
\* with InvalidKey carrying the type observed when the loop reaches a pair
\* whose key evaluates to a non-string and whose value evaluates too;
\* against null it returns null and evaluates no pair; and when the value
\* of the offending pair fails, that error is the result.
C2_InvalidKeyWhenReached ==
    phase = "done" /\ root.kind = "MultiHash" =>
        IF is_null(input)
        THEN outcome.res = Ok(Null) /\ TouchedAt(OffsetsOf(root) \ {root.offset}) = {}
        ELSE \A k \in 1..Len(root.elements) :
                /\ ReachesBadKey(input, root, k) =>
                      /\ IsError(outcome.res, "InvalidKey")
                      /\ outcome.res.v.actual = get_type(KeyResult(input, root, k).v)
                /\ (/\ \A j \in 1..(k - 1) : PairClean(input, root, j)
                    /\ KeyResult(input, root, k).ok
                    /\ ~ValueResult(input, root, k).ok)
                   => outcome.res = ValueResult(input, root, k)

\* The second pair of a MultiHash node has a key that is no string, the
\* first pair is clean, and the node failed with InvalidKey.
C2_Witness ==
    /\ phase = "done"
    /\ root.kind = "MultiHash"
    /\ Len(root.elements) = 2
    /\ ~is_null(input)
    /\ ReachesBadKey(input, root, 2)
    /\ IsError(outcome.res, "InvalidKey")
    /\ outcome.res.v.actual = "object"

====
